---- MODULE Spec2Model ----
(***************************************************************************)
(* A model of the work-serch CV agent: the scoring engine (CVAnalyzer),    *)
(* the text-transformation engine (CVOptimizer) and the coordinating       *)
(* CVAgent with its session history.                                       *)
(*                                                                         *)
(* Text is modelled as TLA+ strings, handled character by character the    *)
(* way the Python string and re operations handle it.  The module text is  *)
(* ASCII, so each non-ASCII code point the code mentions is represented by *)
(* one reserved stand-in character (U2022, U2014, ...) that the model's    *)
(* documents use for nothing else; IsAscii is false of exactly those.      *)
(***************************************************************************)
EXTENDS Integers, Sequences, FiniteSets, TLC

VARIABLES session_history, analysis_cache, optimization_history, args, ret

vars == <<session_history, analysis_cache, optimization_history, args, ret>>

-----------------------------------------------------------------------------
(* Characters *)

LowerLetters == "abcdefghijklmnopqrstuvwxyz"
UpperLetters == "ABCDEFGHIJKLMNOPQRSTUVWXYZ"
Digits == "0123456789"

Ch(s, i) == SubSeq(s, i, i)

CharsOf(s) == {Ch(s, i) : i \in 1..Len(s)}

LowerSet == CharsOf(LowerLetters)
UpperSet == CharsOf(UpperLetters)
DigitSet == CharsOf(Digits)

\* stand-ins for the non-ASCII code points the source names
U2022 == "@"
U25CF == "#"
U25A0 == "$"
U25AA == "^"
U25B8 == "~"
U25BA == "="
U2023 == "<"
U25E6 == ">"
U2043 == "{"
U2219 == "}"
U2014 == "&"
U201C == "["
U201D == "]"
U2018 == "*"
U2019 == "+"

NonAsciiChars == {U2022, U25CF, U25A0, U25AA, U25B8, U25BA, U2023, U25E6, U2043,
                  U2219, U2014, U201C, U201D, U2018, U2019}

IsAscii(c) == c \notin NonAsciiChars

IsAlpha(c) == c \in LowerSet \/ c \in UpperSet

IsDigit(c) == c \in DigitSet

\* the regex class \w on the characters of the model: letters, digits, underscore
IsWordChar(c) == IsAlpha(c) \/ IsDigit(c) \/ c = "_"

\* the regex class \s and str.split()/str.strip() whitespace
IsSpace(c) == c \in {" ", "\t", "\n", "\r", "\f"}

IsUpper(c) == c \in UpperSet

LowerOf == [c \in UpperSet |-> Ch(LowerLetters, CHOOSE i \in 1..26 : Ch(UpperLetters, i) = c)]
UpperOf == [c \in LowerSet |-> Ch(UpperLetters, CHOOSE i \in 1..26 : Ch(LowerLetters, i) = c)]

LowerChar(c) == IF c \in UpperSet THEN LowerOf[c] ELSE c
UpperChar(c) == IF c \in LowerSet THEN UpperOf[c] ELSE c

-----------------------------------------------------------------------------
(* str operations *)

\* the least element of a non-empty set of integers
Min(S) == CHOOSE x \in S : \A y \in S : x <= y

\* str.lower(), character by character (the string is halved to keep the
\* evaluation shallow)
RECURSIVE Lower(_)
Lower(s) ==
    IF Len(s) = 0 THEN ""
    ELSE IF Len(s) = 1 THEN LowerChar(s)
    ELSE LET h == Len(s) \div 2 IN Lower(SubSeq(s, 1, h)) \o Lower(SubSeq(s, h + 1, Len(s)))

\* str.capitalize(): first character upper-cased, the rest lower-cased
Capitalize(s) == IF s = "" THEN "" ELSE UpperChar(Ch(s, 1)) \o Lower(SubSeq(s, 2, Len(s)))

\* s[i : i+len(p)] == p
MatchAt(s, i, p) == i + Len(p) - 1 <= Len(s) /\ SubSeq(s, i, i + Len(p) - 1) = p

\* p in s
Contains(s, p) == \E i \in 1..(Len(s) - Len(p) + 1) : SubSeq(s, i, i + Len(p) - 1) = p

\* s.count(p): non-overlapping occurrences, scanning from the left (p non-empty)
\* the positions at or after i where p occurs in s
MatchesFrom(s, p, i) == {j \in i..(Len(s) - Len(p) + 1) : SubSeq(s, j, j + Len(p) - 1) = p}

RECURSIVE CountFrom(_, _, _)
CountFrom(s, p, i) ==
    LET ms == MatchesFrom(s, p, i)
    IN IF ms = {} THEN 0 ELSE 1 + CountFrom(s, p, Min(ms) + Len(p))

Count(s, p) == CountFrom(s, p, 1)

\* s.count(c) for a single character
CountChar(s, c) == Cardinality({i \in 1..Len(s) : Ch(s, i) = c})

\* len(s.split()): the number of maximal runs of non-whitespace
WordCount(s) ==
    Cardinality({i \in 1..Len(s) : ~IsSpace(Ch(s, i)) /\ (i = 1 \/ IsSpace(Ch(s, i - 1)))})

\* s.split('\n')
RECURSIVE SplitLines(_)
SplitLines(s) ==
    IF \A i \in 1..Len(s) : Ch(s, i) # "\n" THEN <<s>>
    ELSE LET k == CHOOSE i \in 1..Len(s) : Ch(s, i) = "\n" /\ \A j \in 1..(i - 1) : Ch(s, j) # "\n"
         IN <<SubSeq(s, 1, k - 1)>> \o SplitLines(SubSeq(s, k + 1, Len(s)))

\* len(line.strip())
StripLen(s) ==
    LET ns == {i \in 1..Len(s) : ~IsSpace(Ch(s, i))}
    IN IF ns = {} THEN 0
       ELSE (CHOOSE i \in ns : \A j \in ns : j <= i) - (CHOOSE i \in ns : \A j \in ns : i <= j) + 1

\* s.split(sep)[0]
SplitFirst(s, sep) ==
    IF \A i \in 1..Len(s) : Ch(s, i) # sep THEN s
    ELSE SubSeq(s, 1, (CHOOSE i \in 1..Len(s) : Ch(s, i) = sep /\ \A j \in 1..(i - 1) : Ch(s, j) # sep) - 1)

\* sep.join(words)
RECURSIVE Join(_, _)
Join(sep, words) ==
    IF words = <<>> THEN ""
    ELSE IF Len(words) = 1 THEN words[1]
    ELSE words[1] \o sep \o Join(sep, Tail(words))

\* the regex assertion \b between positions i-1 and i of s
WordBoundary(s, i) ==
    LET before == i > 1 /\ IsWordChar(Ch(s, i - 1))
        after == i <= Len(s) /\ IsWordChar(Ch(s, i))
    IN before # after

-----------------------------------------------------------------------------
(* CVOptimizer: catalogs *)

PHRASE_IMPROVEMENTS == <<
    [weak |-> "responsible for", strong_options |-> "managed|led|oversaw|directed"],
    [weak |-> "worked on",       strong_options |-> "developed|implemented|created|built"],
    [weak |-> "helped with",     strong_options |-> "contributed to|supported|facilitated"],
    [weak |-> "duties included", strong_options |-> "key achievements included|delivered"],
    [weak |-> "involved in",     strong_options |-> "participated in|collaborated on|executed"],
    [weak |-> "was part of",     strong_options |-> "contributed to|served on|member of"],
    [weak |-> "did",             strong_options |-> "performed|executed|completed|accomplished"],
    [weak |-> "made",            strong_options |-> "created|developed|produced|generated"],
    [weak |-> "got",             strong_options |-> "achieved|obtained|secured|acquired"] >>

\* each entry is the pattern \b first \s+ second \b and its canonical header
section_mappings == <<
    [first |-> "employment",   second |-> "history",      standard |-> "WORK EXPERIENCE"],
    [first |-> "job",          second |-> "history",      standard |-> "WORK EXPERIENCE"],
    [first |-> "professional", second |-> "experience",   standard |-> "WORK EXPERIENCE"],
    [first |-> "educational",  second |-> "background",   standard |-> "EDUCATION"],
    [first |-> "academic",     second |-> "background",   standard |-> "EDUCATION"],
    [first |-> "core",         second |-> "competencies", standard |-> "SKILLS"],
    [first |-> "technical",    second |-> "skills",       standard |-> "TECHNICAL SKILLS"],
    [first |-> "professional", second |-> "summary",      standard |-> "SUMMARY"],
    [first |-> "career",       second |-> "summary",      standard |-> "SUMMARY"],
    [first |-> "about",        second |-> "me",           standard |-> "SUMMARY"] >>

\* the character classes of the substitutions in _clean_formatting
FancyBullets == {U2022, U25CF, U25A0, U25AA, U25B8, U25BA}
EmDash == {U2014}
DoubleQuoteClass == {"\""}
SingleQuoteClass == {"'"}

-----------------------------------------------------------------------------
(* CVOptimizer: the rewrite stages *)

\* re.compile(re.escape(p), re.IGNORECASE).sub(repl, text), scanning from
\* position i; low is text lower-cased
RECURSIVE SubLiteralFrom(_, _, _, _, _)
SubLiteralFrom(text, low, p, repl, i) ==
    LET ms == MatchesFrom(low, p, i)
    IN IF ms = {} THEN SubSeq(text, i, Len(text))
       ELSE LET j == Min(ms)
            IN SubSeq(text, i, j - 1) \o repl \o SubLiteralFrom(text, low, p, repl, j + Len(p))

SubLiteralIgnoreCase(text, p, repl) == SubLiteralFrom(text, Lower(text), Lower(p), repl, 1)

\* pattern.search(text) for the escaped, case-insensitive literal p
SearchIgnoreCase(text, p) == Contains(Lower(text), Lower(p))

\* the replacement string handed to pattern.sub for one catalog entry
WeakReplacement(weak, strong_options) ==
    LET strong == SplitFirst(strong_options, "|")
    IN IF IsUpper(Ch(weak, 1)) THEN Capitalize(strong) ELSE strong

\* one iteration of the loop over PHRASE_IMPROVEMENTS
ImprovePhrase(improved, entry) ==
    IF SearchIgnoreCase(improved, entry.weak)
    THEN SubLiteralIgnoreCase(improved, entry.weak, WeakReplacement(entry.weak, entry.strong_options))
    ELSE improved

\* the loop over the catalog in declaration order (the length test only fixes
\* the order of evaluation)
RECURSIVE ImproveFrom(_, _)
ImproveFrom(improved, k) ==
    IF k > Len(PHRASE_IMPROVEMENTS) THEN improved
    ELSE LET next == ImprovePhrase(improved, PHRASE_IMPROVEMENTS[k])
         IN IF Len(next) >= 0 THEN ImproveFrom(next, k + 1) ELSE next

_improve_weak_phrases(text) == ImproveFrom(text, 1)

\* the first index at or after j of low that is not whitespace
SkipSpace(low, j) == Min({k \in j..(Len(low) + 1) : k = Len(low) + 1 \/ ~IsSpace(Ch(low, k))})

\* a match of \b first \s+ second \b starting at i: the index after the
\* match, or 0 when there is none
SectionMatchEnd(low, i, m) ==
    IF ~(WordBoundary(low, i) /\ MatchAt(low, i, m.first)) THEN 0
    ELSE LET j == i + Len(m.first)
             k == SkipSpace(low, j)
         IN IF k > j /\ MatchAt(low, k, m.second) /\ WordBoundary(low, k + Len(m.second))
            THEN k + Len(m.second) ELSE 0

RECURSIVE SubSectionFrom(_, _, _, _)
SubSectionFrom(text, low, m, i) ==
    LET ms == {j \in i..Len(text) : SectionMatchEnd(low, j, m) > 0}
    IN IF ms = {} THEN SubSeq(text, i, Len(text))
       ELSE LET j == Min(ms)
            IN SubSeq(text, i, j - 1) \o m.standard
                 \o SubSectionFrom(text, low, m, SectionMatchEnd(low, j, m))

\* re.sub(pattern, standard, text) without re.IGNORECASE
SubSectionCaseSensitive(text, m) == SubSectionFrom(text, text, m, 1)

\* re.sub(pattern, standard, text, flags=re.IGNORECASE)
SubSection(text, m) == SubSectionFrom(text, Lower(text), m, 1)

RECURSIVE StandardizeFrom(_, _)
StandardizeFrom(standardized, k) ==
    IF k > Len(section_mappings) THEN standardized
    ELSE LET next == SubSection(standardized, section_mappings[k])
         IN IF Len(next) >= 0 THEN StandardizeFrom(next, k + 1) ELSE next

_standardize_sections(text) == StandardizeFrom(text, 1)

\* re.sub('[class]', repl, text)
RECURSIVE SubClass(_, _, _)
SubClass(text, class, repl) ==
    IF Len(text) = 0 THEN ""
    ELSE IF Len(text) = 1 THEN (IF text \in class THEN repl ELSE text)
    ELSE LET h == Len(text) \div 2
         IN SubClass(SubSeq(text, 1, h), class, repl) \o SubClass(SubSeq(text, h + 1, Len(text)), class, repl)

\* the first and the last position of the maximal run of c that holds position i
RunStart(text, c, i) == Min({j \in 1..i : \A k \in j..i : Ch(text, k) = c})
RunEnd(text, c, i) == -Min({-j : j \in {j \in i..Len(text) : \A k \in i..j : Ch(text, k) = c}})

\* what re.sub('c{min,}', c * keep, text) leaves of position i: a run of at
\* least min characters c keeps its first keep characters, everything else stays
RunPiece(text, c, min, keep, i) ==
    IF Ch(text, i) = c /\ RunEnd(text, c, i) - RunStart(text, c, i) + 1 >= min
                      /\ i - RunStart(text, c, i) >= keep
    THEN "" ELSE Ch(text, i)

RECURSIVE SubRunRange(_, _, _, _, _, _)
SubRunRange(text, c, min, keep, lo, hi) ==
    IF lo > hi THEN ""
    ELSE IF lo = hi THEN RunPiece(text, c, min, keep, lo)
    ELSE LET h == (lo + hi) \div 2
         IN SubRunRange(text, c, min, keep, lo, h) \o SubRunRange(text, c, min, keep, h + 1, hi)

\* re.sub('c{min,}', c * keep, text) for one character c
SubRun(text, c, min, keep) == SubRunRange(text, c, min, keep, 1, Len(text))

_clean_formatting(text) ==
    LET c1 == SubClass(text, FancyBullets, "-")
        c2 == SubClass(c1, EmDash, "-")
        c3 == SubClass(c2, DoubleQuoteClass, "\"")
        c4 == SubClass(c3, SingleQuoteClass, "'")
        c5 == SubRun(c4, " ", 1, 1)
        c6 == SubRun(c5, "\n", 3, 2)
    IN c6

\* target_role and industry are accepted and not used
optimize_cv_text(cv_text, target_role, industry) ==
    _clean_formatting(_standardize_sections(_improve_weak_phrases(cv_text)))

-----------------------------------------------------------------------------
(* CVAnalyzer: catalogs *)

STANDARD_SECTIONS == <<
    "work experience", "professional experience", "employment history",
    "education", "skills", "technical skills", "certifications",
    "summary", "professional summary", "objective", "profile",
    "achievements", "accomplishments", "projects", "publications" >>

ACTION_VERBS == <<
    "achieved", "implemented", "developed", "managed", "led", "created",
    "improved", "increased", "decreased", "optimized", "delivered",
    "designed", "built", "established", "launched", "spearheaded",
    "orchestrated", "transformed", "streamlined", "negotiated", "directed" >>

\* each entry is a one-character class and its description
ATS_PROBLEMATIC_PATTERNS == <<
    [class |-> {"|"}, description |-> "pipe characters"],
    [class |-> {U2022, U2023, U25E6, U2043, U2219}, description |-> "special bullet points"],
    [class |-> NonAsciiChars, description |-> "non-ASCII characters"] >>

-----------------------------------------------------------------------------
(* regular expressions of the analyzer and of optimize_for_job_description *)

\* the elements of a finite set of integers, in increasing order
Sorted(S) == [n \in 1..Cardinality(S) |-> CHOOSE i \in S : Cardinality({j \in S : j < i}) = n - 1]

\* the last position of the maximal run of letters that starts at i
AlphaRunEnd(s, i) == -Min({-j : j \in {j \in i..Len(s) : \A k \in i..j : IsAlpha(Ch(s, k))}})

\* the start positions of the matches of \b[a-zA-Z]{3,}\b in s: a letter at
\* a word boundary, followed greedily by letters, at least 3 in all, ending at
\* a word boundary
WordStarts(s) ==
    {i \in 1..Len(s) : /\ IsAlpha(Ch(s, i))
                       /\ WordBoundary(s, i)
                       /\ AlphaRunEnd(s, i) - i + 1 >= 3
                       /\ WordBoundary(s, AlphaRunEnd(s, i) + 1)}

\* re.findall(r'\b[a-zA-Z]{3,}\b', s)
FindWords(s) ==
    LET starts == Sorted(WordStarts(s))
    IN [n \in 1..Len(starts) |-> SubSeq(s, starts[n], AlphaRunEnd(s, starts[n]))]

\* the end of the match of \b\d+[%\w]*\b that starts at i (a digit at a word
\* boundary): the greedy run of [%\w] backed off to the last word boundary
NumberMatchEnd(s, i) ==
    LET run == {j \in i..Len(s) : \A k \in i..j : IsWordChar(Ch(s, k)) \/ Ch(s, k) = "%"}
    IN -Min({-j : j \in {j \in run : WordBoundary(s, j + 1)}})

\* len(re.findall(r'\b\d+[%\w]*\b', s)), scanning from position i
RECURSIVE CountNumbersFrom(_, _)
CountNumbersFrom(s, i) ==
    LET starts == {j \in i..Len(s) : IsDigit(Ch(s, j)) /\ WordBoundary(s, j)}
    IN IF starts = {} THEN 0 ELSE 1 + CountNumbersFrom(s, NumberMatchEnd(s, Min(starts)) + 1)

\* the last position of the maximal run of digits that starts at i
DigitRunEnd(s, i) == -Min({-j : j \in {j \in i..Len(s) : \A k \in i..j : IsDigit(Ch(s, k))}})

\* len(re.findall(r'\b\d+%', s))
CountPercentages(s) ==
    Cardinality({i \in 1..Len(s) : /\ IsDigit(Ch(s, i))
                                   /\ WordBoundary(s, i)
                                   /\ DigitRunEnd(s, i) < Len(s)
                                   /\ Ch(s, DigitRunEnd(s, i) + 1) = "%"})

-----------------------------------------------------------------------------
(* dict, as the sequence of its keys in insertion order plus a lookup *)

\* the keys of the dict built by counting the elements of words one by one
FreqKeys(words) ==
    LET firsts == Sorted({n \in 1..Len(words) : \A m \in 1..(n - 1) : words[m] # words[n]})
    IN [n \in 1..Len(firsts) |-> words[firsts[n]]]

\* the count that dict holds for w
Freq(words, w) == Cardinality({n \in 1..Len(words) : words[n] = w})

\* int(x) of the real number num/den (den > 0): truncation toward zero
Trunc(num, den) == IF num >= 0 THEN num \div den ELSE -((-num) \div den)

MinOf(a, b) == IF a <= b THEN a ELSE b
MaxOf(a, b) == IF a >= b THEN a ELSE b

-----------------------------------------------------------------------------
(* CVAnalyzer *)

\* min(100, (found_sections / 5) * 100)
_analyze_sections(cv_lower) ==
    LET found_sections == Cardinality({k \in 1..Len(STANDARD_SECTIONS) : Contains(cv_lower, STANDARD_SECTIONS[k])})
    IN MinOf(100, found_sections * 20)

\* int(coverage * 100) for coverage = found / important; the double
\* arithmetic of the source gives this quotient for every important < 50
CoverageScore(found, important) == (100 * found) \div important

\* freq >= 2
ImportantFreqFromTwo(freq) == freq >= 2

\* freq > 2: the job-description word counts as important
ImportantFreq(freq) == freq > 2

\* returns the score and the keywords dict, the latter as the sequence of its
\* (word, count) items in insertion order
_analyze_keywords(cv_text, job_description) ==
    IF job_description # ""
    THEN LET jd_words == FindWords(Lower(job_description))
             keys == FreqKeys(jd_words)
             cv_lower == Lower(cv_text)
             Important(w) == ImportantFreq(Freq(jd_words, w))
             Found(w) == ImportantFreq(Freq(jd_words, w)) /\ Contains(cv_lower, w)
             found_keys == SelectSeq(keys, Found)
             important_keywords == SelectSeq(keys, Important)
             keywords == [n \in 1..Len(found_keys) |-> <<found_keys[n], Count(cv_lower, found_keys[n])>>]
         IN [score |-> IF Len(important_keywords) > 0
                       THEN CoverageScore(Len(keywords), Len(important_keywords))
                       ELSE 50,
             keywords |-> keywords]
    ELSE [score |-> 50, keywords |-> <<>>]

IssueText(description) == "Contains " \o description \o " which may confuse ATS systems"

TableIssue == "Possible table formatting detected - may not parse well in ATS"
ColumnIssue == "Many short lines detected - possible column formatting issues"

_check_formatting(cv_text) ==
    LET Hit(k) == \E i \in 1..Len(cv_text) : Ch(cv_text, i) \in ATS_PROBLEMATIC_PATTERNS[k].class
        hits == SelectSeq(<<1, 2, 3>>, Hit)
        pattern_issues == [n \in 1..Len(hits) |-> IssueText(ATS_PROBLEMATIC_PATTERNS[hits[n]].description)]
        lines == SplitLines(cv_text)
        short_lines == Cardinality({n \in 1..Len(lines) : 0 < StripLen(lines[n]) /\ StripLen(lines[n]) < 20})
    IN pattern_issues
         \o (IF CountChar(cv_text, "\t") > 10 THEN <<TableIssue>> ELSE <<>>)
         \o (IF 10 * short_lines > 3 * Len(lines) THEN <<ColumnIssue>> ELSE <<>>)

\* sum(cv_lower.count(verb) for verb in ACTION_VERBS)
RECURSIVE VerbCountFrom(_, _)
VerbCountFrom(cv_lower, k) ==
    IF k > Len(ACTION_VERBS) THEN 0
    ELSE Count(cv_lower, ACTION_VERBS[k]) + VerbCountFrom(cv_lower, k + 1)

ActionVerbCount(cv_lower) == VerbCountFrom(cv_lower, 1)

\* a document without words scored 100 instead of 0
ActionVerbsFullWithoutWords(cv_lower) ==
    LET action_verb_count == ActionVerbCount(cv_lower)
        words == WordCount(cv_lower)
    IN IF words > 0 THEN MinOf(100, (1000 * action_verb_count) \div words) ELSE 100

\* min(100, int(density * 1000)) for density = action_verb_count / len(words)
_analyze_action_verbs(cv_lower) ==
    LET action_verb_count == ActionVerbCount(cv_lower)
        words == WordCount(cv_lower)
    IN IF words > 0 THEN MinOf(100, (1000 * action_verb_count) \div words) ELSE 0

\* the thresholds as >= 10, >= 5, >= 2
QuantificationFromThreshold(cv_text) ==
    LET numbers == CountNumbersFrom(cv_text, 1)
    IN IF numbers >= 10 THEN 100
       ELSE IF numbers >= 5 THEN 75
       ELSE IF numbers >= 2 THEN 50
       ELSE 25

_analyze_quantification(cv_text) ==
    LET numbers == CountNumbersFrom(cv_text, 1)
    IN IF numbers > 10 THEN 100
       ELSE IF numbers > 5 THEN 75
       ELSE IF numbers > 2 THEN 50
       ELSE 25

\* the score without the floor at 0
AtsScoreUnfloored(section_score, formatting_issues, keyword_score) ==
    Trunc(2 * section_score + 2 * keyword_score - 5 * MinOf(30, Len(formatting_issues) * 10), 5)

\* the deduction without its cap: len(formatting_issues) * 10
AtsScoreUncapped(section_score, formatting_issues, keyword_score) ==
    LET deduction == Len(formatting_issues) * 10
        score5 == 2 * section_score + 2 * keyword_score - 5 * deduction
    IN Trunc(MaxOf(0, score5), 5)

\* int(max(0, section_score * 0.4 + keyword_score * 0.4 - deduction)), computed
\* in fifths
_calculate_ats_score(section_score, formatting_issues, keyword_score) ==
    LET deduction == MinOf(30, Len(formatting_issues) * 10)
        score5 == 2 * section_score + 2 * keyword_score - 5 * deduction
    IN Trunc(MaxOf(0, score5), 5)

\* int(ats * 0.5 + action_verb * 0.25 + quantification * 0.25), computed in quarters
_calculate_overall_score(ats_score, action_verb_score, quantification_score) ==
    Trunc(2 * ats_score + action_verb_score + quantification_score, 4)

_identify_strengths(cv_text, cv_lower) ==
    LET word_count == WordCount(cv_text)
        strengths ==
            (IF CountPercentages(cv_text) > 3
             THEN <<"Good use of quantified achievements with percentages">> ELSE <<>>)
         \o (IF ActionVerbCount(cv_lower) > 10
             THEN <<"Strong use of action verbs to describe responsibilities">> ELSE <<>>)
         \o (IF \A section \in {"experience", "education", "skills"} : Contains(cv_lower, section)
             THEN <<"Contains all essential CV sections">> ELSE <<>>)
         \o (IF 300 < word_count /\ word_count < 800
             THEN <<"Appropriate length - concise yet comprehensive">> ELSE <<>>)
    IN IF strengths # <<>> THEN strengths ELSE <<"CV structure is present">>

\* the weaknesses returned as collected, without the fallback
IdentifyWeaknessesNoFallback(cv_text, cv_lower, formatting_issues) ==
    LET weak_count == Count(cv_lower, "responsible for") + Count(cv_lower, "duties included")
                        + Count(cv_lower, "worked on")
        word_count == WordCount(cv_text)
    IN     (IF ~Contains(cv_lower, "experience") /\ ~Contains(cv_lower, "employment")
             THEN <<"Missing work experience section">> ELSE <<>>)
         \o (IF ~Contains(cv_lower, "education") THEN <<"Missing education section">> ELSE <<>>)
         \o (IF ~Contains(cv_lower, "skills") THEN <<"Missing skills section">> ELSE <<>>)
         \o (IF weak_count > 3
             THEN <<"Overuse of weak phrases - use stronger action verbs">> ELSE <<>>)
         \o (IF word_count < 200
             THEN <<"CV is too short - add more detail about achievements">>
             ELSE IF word_count > 1000
             THEN <<"CV is too long - focus on most relevant information">> ELSE <<>>)
         \o (IF formatting_issues # <<>>
             THEN <<"ATS formatting concerns: " \o ToString(Len(formatting_issues)) \o " issues detected">>
             ELSE <<>>)

_identify_weaknesses(cv_text, cv_lower, formatting_issues) ==
    LET weak_count == Count(cv_lower, "responsible for") + Count(cv_lower, "duties included")
                        + Count(cv_lower, "worked on")
        word_count == WordCount(cv_text)
        weaknesses ==
            (IF ~Contains(cv_lower, "experience") /\ ~Contains(cv_lower, "employment")
             THEN <<"Missing work experience section">> ELSE <<>>)
         \o (IF ~Contains(cv_lower, "education") THEN <<"Missing education section">> ELSE <<>>)
         \o (IF ~Contains(cv_lower, "skills") THEN <<"Missing skills section">> ELSE <<>>)
         \o (IF weak_count > 3
             THEN <<"Overuse of weak phrases - use stronger action verbs">> ELSE <<>>)
         \o (IF word_count < 200
             THEN <<"CV is too short - add more detail about achievements">>
             ELSE IF word_count > 1000
             THEN <<"CV is too long - focus on most relevant information">> ELSE <<>>)
         \o (IF formatting_issues # <<>>
             THEN <<"ATS formatting concerns: " \o ToString(Len(formatting_issues)) \o " issues detected">>
             ELSE <<>>)
    IN IF weaknesses # <<>> THEN weaknesses ELSE <<"Minor improvements could be made">>

FormattingRec ==
    "CRITICAL: Fix ATS formatting issues - use simple formatting, standard fonts, and avoid tables/columns"
SectionsRec ==
    "Add all essential sections: Professional Summary, Work Experience, Education, Skills, and relevant certifications"
KeywordRec ==
    "Optimize keywords: Review the job description and naturally incorporate relevant terms and skills throughout your CV"
ActionVerbRec ==
    "Strengthen impact: Replace weak phrases with strong action verbs (e.g., 'managed', 'developed', 'achieved', 'implemented')"
QuantifyRec ==
    "Add quantifiable achievements: Include specific numbers, percentages, and metrics to demonstrate impact (e.g., 'Increased sales by 25%')"
TailorRec ==
    "Tailor your CV: Customize it for each application to match the specific job requirements and company culture"

\* any(word in w.lower() for w in weaknesses)
AnyMentions(weaknesses, word) == \E n \in 1..Len(weaknesses) : Contains(Lower(weaknesses[n]), word)

\* the recommendations with the action-verb rule ahead of the keyword rule
RecommendationsVerbsFirst(weaknesses, formatting_issues, keyword_score, action_verb_score) ==
       (IF formatting_issues # <<>> THEN <<FormattingRec>> ELSE <<>>)
    \o (IF AnyMentions(weaknesses, "missing") THEN <<SectionsRec>> ELSE <<>>)
    \o (IF action_verb_score < 50 THEN <<ActionVerbRec>> ELSE <<>>)
    \o (IF keyword_score < 60 THEN <<KeywordRec>> ELSE <<>>)
    \o (IF ~AnyMentions(weaknesses, "quantified") THEN <<QuantifyRec>> ELSE <<>>)
    \o <<TailorRec>>

\* the quantification guard testing for 'achievements' instead of 'quantified'
RecommendationsUnlessAchievements(weaknesses, formatting_issues, keyword_score, action_verb_score) ==
       (IF formatting_issues # <<>> THEN <<FormattingRec>> ELSE <<>>)
    \o (IF AnyMentions(weaknesses, "missing") THEN <<SectionsRec>> ELSE <<>>)
    \o (IF keyword_score < 60 THEN <<KeywordRec>> ELSE <<>>)
    \o (IF action_verb_score < 50 THEN <<ActionVerbRec>> ELSE <<>>)
    \o (IF ~AnyMentions(weaknesses, "achievements") THEN <<QuantifyRec>> ELSE <<>>)
    \o <<TailorRec>>

_generate_recommendations(weaknesses, formatting_issues, keyword_score, action_verb_score) ==
       (IF formatting_issues # <<>> THEN <<FormattingRec>> ELSE <<>>)
    \o (IF AnyMentions(weaknesses, "missing") THEN <<SectionsRec>> ELSE <<>>)
    \o (IF keyword_score < 60 THEN <<KeywordRec>> ELSE <<>>)
    \o (IF action_verb_score < 50 THEN <<ActionVerbRec>> ELSE <<>>)
    \o (IF ~AnyMentions(weaknesses, "quantified") THEN <<QuantifyRec>> ELSE <<>>)
    \o <<TailorRec>>

\* the CVAnalysisResult
analyze_cv(cv_text, job_description) ==
    LET cv_lower == Lower(cv_text)
        section_score == _analyze_sections(cv_lower)
        kw == _analyze_keywords(cv_text, job_description)
        formatting_issues == _check_formatting(cv_text)
        action_verb_score == _analyze_action_verbs(cv_lower)
        quantification_score == _analyze_quantification(cv_text)
        ats_score == _calculate_ats_score(section_score, formatting_issues, kw.score)
        overall_score == _calculate_overall_score(ats_score, action_verb_score, quantification_score)
        strengths == _identify_strengths(cv_text, cv_lower)
        weaknesses == _identify_weaknesses(cv_text, cv_lower, formatting_issues)
        recommendations == _generate_recommendations(weaknesses, formatting_issues, kw.score, action_verb_score)
    IN [overall_score |-> overall_score,
        ats_compatibility_score |-> ats_score,
        strengths |-> strengths,
        weaknesses |-> weaknesses,
        recommendations |-> recommendations,
        keyword_analysis |-> kw.keywords,
        formatting_issues |-> formatting_issues]

-----------------------------------------------------------------------------
(* CVOptimizer: keyword suggestions and job-specific optimization *)

INDUSTRY_KEYWORDS == <<
    [industry |-> "software",
     keywords |-> {"agile", "scrum", "ci/cd", "devops", "microservices", "cloud", "aws", "azure",
                   "docker", "kubernetes", "git", "rest api", "database", "testing", "debugging"}],
    [industry |-> "marketing",
     keywords |-> {"seo", "sem", "content marketing", "social media", "analytics",
                   "campaign management", "brand strategy", "roi", "lead generation", "market research"}],
    [industry |-> "finance",
     keywords |-> {"financial analysis", "forecasting", "budgeting", "risk management", "compliance",
                   "reporting", "excel", "financial modeling", "accounting", "audit"}],
    [industry |-> "healthcare",
     keywords |-> {"patient care", "hipaa", "ehr", "clinical", "healthcare administration",
                   "medical records", "regulatory compliance", "quality assurance"}],
    [industry |-> "sales",
     keywords |-> {"revenue growth", "client acquisition", "pipeline management", "crm", "negotiation",
                   "account management", "quota", "b2b", "b2c", "cold calling", "relationship building"}] >>

\* the loop over the catalog without its break: every matching industry contributes
SuggestKeywordsEveryIndustry(industry, role) ==
    LET industry_lower == Lower(industry)
        matching == {k \in 1..Len(INDUSTRY_KEYWORDS) : Contains(industry_lower, INDUSTRY_KEYWORDS[k].industry)}
        role_lower == Lower(role)
    IN UNION {INDUSTRY_KEYWORDS[k].keywords : k \in matching}
         \cup (IF role # "" /\ (Contains(role_lower, "senior") \/ Contains(role_lower, "lead"))
               THEN {"leadership", "mentoring", "team management"} ELSE {})
         \cup (IF role # "" /\ Contains(role_lower, "manager")
               THEN {"project management", "stakeholder management", "strategic planning"} ELSE {})
         \cup (IF role # "" /\ (Contains(role_lower, "engineer") \/ Contains(role_lower, "developer"))
               THEN {"problem solving", "technical design", "code review"} ELSE {})

\* list(set(keywords)): the result is modelled as the set, its order is arbitrary
suggest_keywords(industry, role) ==
    LET industry_lower == Lower(industry)
        matching == {k \in 1..Len(INDUSTRY_KEYWORDS) : Contains(industry_lower, INDUSTRY_KEYWORDS[k].industry)}
        industry_keywords == IF matching = {} THEN {} ELSE INDUSTRY_KEYWORDS[Min(matching)].keywords
        role_lower == Lower(role)
    IN industry_keywords
         \cup (IF role # "" /\ (Contains(role_lower, "senior") \/ Contains(role_lower, "lead"))
               THEN {"leadership", "mentoring", "team management"} ELSE {})
         \cup (IF role # "" /\ Contains(role_lower, "manager")
               THEN {"project management", "stakeholder management", "strategic planning"} ELSE {})
         \cup (IF role # "" /\ (Contains(role_lower, "engineer") \/ Contains(role_lower, "developer"))
               THEN {"problem solving", "technical design", "code review"} ELSE {})

StopWords == {"the", "and", "for", "with", "that", "this"}

\* freq >= 3: the job-description word counts as important
ImportantJdFreq(freq) == freq >= 3

\* missing_keywords[:11]
FirstEleven(seq) == SubSeq(seq, 1, MinOf(11, Len(seq)))

\* missing_keywords[:10]
FirstTen(seq) == SubSeq(seq, 1, MinOf(10, Len(seq)))

SuggestionHeader == "Consider incorporating these keywords from the job description: "

\* returns the pair (optimized, suggestions) as a record
optimize_for_job_description(cv_text, job_description) ==
    LET jd_words == FindWords(job_description)
        lowered == [n \in 1..Len(jd_words) |-> Lower(jd_words[n])]
        NotStop(w) == w \notin StopWords
        counted == SelectSeq(lowered, NotStop)
        Important(w) == ImportantJdFreq(Freq(counted, w))
        important_keywords == SelectSeq(FreqKeys(counted), Important)
        cv_lower == Lower(cv_text)
        Missing(kw) == ~Contains(cv_lower, kw)
        missing_keywords == SelectSeq(important_keywords, Missing)
    IN [optimized |-> optimize_cv_text(cv_text, "", ""),
        suggestions |-> IF missing_keywords # <<>>
                        THEN <<SuggestionHeader \o Join(", ", FirstTen(missing_keywords))>>
                        ELSE <<>>]

-----------------------------------------------------------------------------
(* bounds and input sets *)

MaxCalls == 2
MaxRewriteFrags == 2
MaxAnalyzeFrags == 3
MaxJdFrags == 3

\* all concatenations of at most n fragments
RECURSIVE Concats(_, _)
Concats(frags, n) ==
    IF n = 0 THEN {""}
    ELSE LET shorter == Concats(frags, n - 1)
         IN shorter \cup {d \o f : d \in shorter, f \in frags}

\* n copies of s
RECURSIVE Repeat(_, _)
Repeat(s, n) ==
    IF n = 0 THEN ""
    ELSE LET half == Repeat(s, n \div 2)
         IN IF n % 2 = 0 THEN half \o half ELSE half \o half \o s

Agents == {"a1", "a2"}

AgentCvs == {"Responsible  for did", U2022 \o " Employment History\nled 5 teams"}
AgentJds == {"", "rust rust rust skills skills skills"}
AgentTargets == {[role |-> "", industry |-> ""], [role |-> "Senior Developer", industry |-> "Software Engineering"]}

RewriteFrags == {"Responsible for ", "did", "id ", "candidate ", "un", "employment history",
                 "Employment History\n", "a" \o U2022 \o "b" \o U2014 \o "c" \o U201C \o "d" \o U201D,
                 "made", "\n\n", " ", "professional ", "career summary", "about me",
                 "x" \o U25E6}
RewriteDocs == Concats(RewriteFrags, MaxRewriteFrags)

AnalyzeFrags == {"led ", "work experience education skills\n", "python ", "|", "12% "}
\* a line of 200 words, the least length that is not too short, alone and
\* followed by each fragment
EnoughWords == Repeat("a ", 200)
LongDocs == {EnoughWords \o d : d \in Concats(AnalyzeFrags, 1)}
AnalyzeDocs == Concats(AnalyzeFrags, MaxAnalyzeFrags) \cup LongDocs
AnalyzeJds == {"", "python python python", "Python python PYTHON rust rust rust skills skills",
               "python3 python3 python3 led led led led"}

ElevenWords == "aaa bbb ccc ddd eee fff ggg hhh iii jjj kkk "
ElevenThrice == ElevenWords \o ElevenWords \o ElevenWords
JdFrags == {ElevenThrice, "rust rust ", "Python python the the the for2 "}
JdDocs == Concats(JdFrags, MaxJdFrags)
JdCvs == {"", "Python developer", "did rust and ccc", "aaa bbb ccc ddd eee fff ggg hhh iii kkk"}

MaxSuggestFrags == 2
IndustryFrags == {"Software", " Engineering", "marketing", "Health"}
RoleFrags == {"Senior", " Developer", "Team Lead", "manager", "engineer"}
SuggestIndustries == Concats(IndustryFrags, MaxSuggestFrags)
SuggestRoles == Concats(RoleFrags, MaxSuggestFrags)

MaxQuantFrags == 4
QuantFrags == {"1 2 3 ", "40% 5x ", "x6 ", "7"}
QuantDocs == Concats(QuantFrags, MaxQuantFrags)

MaxFormatFrags == 4
FormatFrags == {"ab", "\n\n\n", "\n", "a line of twenty or more characters"}
FormatDocs == Concats(FormatFrags, MaxFormatFrags)

\* the values of _analyze_sections and of _analyze_keywords
SectionScores == {MinOf(100, found * 20) : found \in 0..Len(STANDARD_SECTIONS)}
KeywordScores == 0..100
\* the lists _check_formatting can return: a special bullet is also a non-ASCII character
IssueLists ==
    {pattern_issues \o table \o column :
        pattern_issues \in {[n \in 1..Len(hits) |-> IssueText(ATS_PROBLEMATIC_PATTERNS[hits[n]].description)] :
                                hits \in {<<>>, <<1>>, <<3>>, <<1, 3>>, <<2, 3>>, <<1, 2, 3>>}},
        table \in {<<>>, <<TableIssue>>},
        column \in {<<>>, <<ColumnIssue>>}}

-----------------------------------------------------------------------------
(* CVAgent *)

NoCall == [op |-> "none"]

\* session_history as one list shared by every instance
StoreInSharedHistory(history, agent, results) == [a \in DOMAIN history |-> Append(history[a], results)]

\* self.session_history.append(results)
StoreInHistory(history, agent, results) == [history EXCEPT ![agent] = Append(@, results)]

TotalCalls == Len(session_history["a1"]) + Len(session_history["a2"])

analyze_and_optimize(agent, cv_text, job_description, target_role, industry) ==
    LET analysis == analyze_cv(cv_text, job_description)
        first_pass == optimize_cv_text(cv_text, target_role, industry)
        suggested_keywords == IF industry # "" THEN suggest_keywords(industry, target_role) ELSE {}
        job_specific == optimize_for_job_description(first_pass, job_description)
        results == [analysis |-> analysis,
                    optimized_cv |-> IF job_description # "" THEN job_specific.optimized ELSE first_pass,
                    suggested_keywords |-> suggested_keywords,
                    job_specific_suggestions |-> IF job_description # "" THEN job_specific.suggestions ELSE <<>>,
                    original_cv |-> cv_text]
    IN /\ TotalCalls < MaxCalls
       /\ session_history' = StoreInHistory(session_history, agent, results)
       /\ args' = [op |-> "analyze_and_optimize", agent |-> agent, cv_text |-> cv_text,
                   job_description |-> job_description, target_role |-> target_role,
                   industry |-> industry]
       /\ ret' = [op |-> "analyze_and_optimize", value |-> results]
       /\ UNCHANGED <<analysis_cache, optimization_history>>

\* CVAgent.__init__, CVAnalyzer.__init__ and CVOptimizer.__init__ for every agent
Constructed ==
    /\ session_history = [a \in Agents |-> <<>>]
    /\ analysis_cache = [a \in Agents |-> <<>>]
    /\ optimization_history = [a \in Agents |-> <<>>]

Init == Constructed /\ args = NoCall /\ ret = NoCall

Next ==
    \E agent \in Agents, cv_text \in AgentCvs, job_description \in AgentJds, target \in AgentTargets :
        analyze_and_optimize(agent, cv_text, job_description, target.role, target.industry)

Spec == Init /\ [][Next]_vars

-----------------------------------------------------------------------------
(* direct calls of the analyzer: one call on a document and a job description *)

InitAnalyze ==
    /\ Constructed
    /\ args \in {[op |-> "analyze_cv", cv_text |-> d, job_description |-> j] : d \in AnalyzeDocs, j \in AnalyzeJds}
    /\ ret = NoCall

AnalyzeCv ==
    /\ ret = NoCall
    /\ ret' = [op |-> "analyze_cv", value |-> analyze_cv(args.cv_text, args.job_description)]
    /\ UNCHANGED <<session_history, analysis_cache, optimization_history, args>>

NextAnalyze == AnalyzeCv

SpecAnalyze == InitAnalyze /\ [][NextAnalyze]_vars

-----------------------------------------------------------------------------
(* direct calls of the optimizer: the rewrite and each of its stages *)

InitRewrite ==
    /\ Constructed
    /\ args \in {[op |-> "rewrite", cv_text |-> d] : d \in RewriteDocs}
    /\ ret = NoCall

OptimizeCvText ==
    /\ ret = NoCall
    /\ ret' = [op |-> "optimize_cv_text", value |-> optimize_cv_text(args.cv_text, "", "")]
    /\ UNCHANGED <<session_history, analysis_cache, optimization_history, args>>

ImproveWeakPhrases ==
    /\ ret = NoCall
    /\ ret' = [op |-> "_improve_weak_phrases", value |-> _improve_weak_phrases(args.cv_text)]
    /\ UNCHANGED <<session_history, analysis_cache, optimization_history, args>>

StandardizeSections ==
    /\ ret = NoCall
    /\ ret' = [op |-> "_standardize_sections", value |-> _standardize_sections(args.cv_text)]
    /\ UNCHANGED <<session_history, analysis_cache, optimization_history, args>>

CleanFormatting ==
    /\ ret = NoCall
    /\ ret' = [op |-> "_clean_formatting", value |-> _clean_formatting(args.cv_text)]
    /\ UNCHANGED <<session_history, analysis_cache, optimization_history, args>>

NextRewrite == OptimizeCvText \/ ImproveWeakPhrases \/ StandardizeSections \/ CleanFormatting

SpecRewrite == InitRewrite /\ [][NextRewrite]_vars

-----------------------------------------------------------------------------
(* direct calls of optimize_for_job_description *)

InitJobDescription ==
    /\ Constructed
    /\ args \in {[op |-> "optimize_for_job_description", cv_text |-> d, job_description |-> j] :
                    d \in JdCvs, j \in JdDocs}
    /\ ret = NoCall

OptimizeForJobDescription ==
    /\ ret = NoCall
    /\ ret' = [op |-> "optimize_for_job_description",
               value |-> optimize_for_job_description(args.cv_text, args.job_description)]
    /\ UNCHANGED <<session_history, analysis_cache, optimization_history, args>>

NextJobDescription == OptimizeForJobDescription

SpecJobDescription == InitJobDescription /\ [][NextJobDescription]_vars

-----------------------------------------------------------------------------
(* direct calls of suggest_keywords *)

InitSuggestKeywords ==
    /\ Constructed
    /\ args \in {[op |-> "suggest_keywords", industry |-> i, role |-> r] :
                    i \in SuggestIndustries, r \in SuggestRoles}
    /\ ret = NoCall

SuggestKeywords ==
    /\ ret = NoCall
    /\ ret' = [op |-> "suggest_keywords", value |-> suggest_keywords(args.industry, args.role)]
    /\ UNCHANGED <<session_history, analysis_cache, optimization_history, args>>

NextSuggestKeywords == SuggestKeywords

SpecSuggestKeywords == InitSuggestKeywords /\ [][NextSuggestKeywords]_vars

-----------------------------------------------------------------------------
(* direct calls of _analyze_quantification *)

InitQuantification ==
    /\ Constructed
    /\ args \in {[op |-> "_analyze_quantification", cv_text |-> d] : d \in QuantDocs}
    /\ ret = NoCall

AnalyzeQuantification ==
    /\ ret = NoCall
    /\ ret' = [op |-> "_analyze_quantification", value |-> _analyze_quantification(args.cv_text)]
    /\ UNCHANGED <<session_history, analysis_cache, optimization_history, args>>

NextQuantification == AnalyzeQuantification

SpecQuantification == InitQuantification /\ [][NextQuantification]_vars

-----------------------------------------------------------------------------
(* direct calls of _check_formatting *)

InitFormatting ==
    /\ Constructed
    /\ args \in {[op |-> "_check_formatting", cv_text |-> d] : d \in FormatDocs}
    /\ ret = NoCall

CheckFormatting ==
    /\ ret = NoCall
    /\ ret' = [op |-> "_check_formatting", value |-> _check_formatting(args.cv_text)]
    /\ UNCHANGED <<session_history, analysis_cache, optimization_history, args>>

NextFormatting == CheckFormatting

SpecFormatting == InitFormatting /\ [][NextFormatting]_vars

-----------------------------------------------------------------------------
(* direct calls of _calculate_ats_score *)

InitAtsScore ==
    /\ Constructed
    /\ args \in {[op |-> "_calculate_ats_score", section_score |-> sc, formatting_issues |-> fi,
                   keyword_score |-> kw] :
                    sc \in SectionScores, fi \in IssueLists, kw \in KeywordScores}
    /\ ret = NoCall

CalculateAtsScore ==
    /\ ret = NoCall
    /\ ret' = [op |-> "_calculate_ats_score",
               value |-> _calculate_ats_score(args.section_score, args.formatting_issues, args.keyword_score)]
    /\ UNCHANGED <<session_history, analysis_cache, optimization_history, args>>

NextAtsScore == CalculateAtsScore

SpecAtsScore == InitAtsScore /\ [][NextAtsScore]_vars

-----------------------------------------------------------------------------
(* Properties of the scoring engine and of the rewrite *)

cv == args.cv_text
jd == args.job_description
out == ret.value

\* C1: for every document and every job description (empty ones included) the
\* result of analyze_cv has both overall_score and ats_compatibility_score
\* in 0..100
C1_ScoresInRange ==
    ret.op = "analyze_cv" =>
        /\ out.overall_score \in 0..100
        /\ out.ats_compatibility_score \in 0..100

\* an analysis whose weighted sum minus the deduction is negative, so the floor acts
C1_Witness ==
    /\ ret.op = "analyze_cv"
    /\ jd # ""
    /\ out.formatting_issues # <<>>
    /\ AtsScoreUnfloored(_analyze_sections(Lower(cv)), out.formatting_issues,
                         _analyze_keywords(cv, jd).score) < 0
    /\ out.ats_compatibility_score = 0

\* the first strong alternative of catalog entry k
FirstStrong(k) == SplitFirst(PHRASE_IMPROVEMENTS[k].strong_options, "|")

\* C2: the replacement of a weak phrase mirrors the capitalization of the
\* matched occurrence; stated for the documents that begin with an occurrence:
\* the output begins with the first strong alternative, capitalized iff the
\* occurrence began with an upper-case letter ("Responsible for" gives "Managed")
C2_CapitalizationMirrored ==
    ret.op = "_improve_weak_phrases" =>
        \A k \in 1..Len(PHRASE_IMPROVEMENTS) :
            MatchAt(Lower(cv), 1, PHRASE_IMPROVEMENTS[k].weak) =>
                MatchAt(out, 1, IF IsUpper(Ch(cv, 1)) THEN Capitalize(FirstStrong(k)) ELSE FirstStrong(k))

\* C3: the rewrite leaves no decorative bullet glyph, no em-dash, no curly
\* quote, no run of two spaces and no run of three line breaks, and it maps
\* a(U+2022)b(U+2014)c(U+201C)d(U+201D) to a-b-c"d"
C3_Sanitized ==
    ret.op = "optimize_cv_text" =>
        /\ \A i \in 1..Len(out) : Ch(out, i) \notin FancyBullets \cup {U2014, U201C, U201D, U2018, U2019}
        /\ ~Contains(out, "  ")
        /\ ~Contains(out, "\n\n\n")
        /\ (cv = "a" \o U2022 \o "b" \o U2014 \o "c" \o U201C \o "d" \o U201D => out = "a-b-c\"d\"")

\* C4: the weak-phrase stage is idempotent: applied to its own output it
\* returns that output unchanged
C4_WeakPhrasesIdempotent ==
    ret.op = "_improve_weak_phrases" => _improve_weak_phrases(out) = out

\* phrase occurs in text, in any letter case, from a word boundary to a word boundary
WholePhraseIn(text, phrase) ==
    \E i \in 1..Len(text) : /\ MatchAt(Lower(text), i, phrase)
                            /\ WordBoundary(text, i)
                            /\ WordBoundary(text, i + Len(phrase))

\* C5: the weak-phrase stage matches whole phrases only: its output has no
\* whole-phrase occurrence of a catalog phrase left, and a document where
\* catalog phrases occur only inside longer words ("did" in "candidate") is
\* returned unchanged
C5_WholePhrasesOnly ==
    ret.op = "_improve_weak_phrases" =>
        /\ \A k \in 1..Len(PHRASE_IMPROVEMENTS) : ~WholePhraseIn(out, PHRASE_IMPROVEMENTS[k].weak)
        /\ (\A k \in 1..Len(PHRASE_IMPROVEMENTS) : ~WholePhraseIn(cv, PHRASE_IMPROVEMENTS[k].weak)) => out = cv

\* C6 as stated: a document that contains "employment history" in any letter
\* case is rewritten to a text that contains "WORK EXPERIENCE" and no
\* occurrence of "employment history" in any letter case
C6_AnyOccurrence ==
    (ret.op = "optimize_cv_text" /\ Contains(Lower(cv), "employment history")) =>
        /\ Contains(out, "WORK EXPERIENCE")
        /\ ~Contains(Lower(out), "employment history")

\* C6: a document that contains "employment history" in any letter case as a
\* whole phrase (from a word boundary to a word boundary) is rewritten to a
\* text that contains "WORK EXPERIENCE" and no whole-phrase occurrence of
\* "employment history" in any letter case
C6_WholePhraseOccurrence ==
    (ret.op = "optimize_cv_text" /\ WholePhraseIn(cv, "employment history")) =>
        /\ Contains(out, "WORK EXPERIENCE")
        /\ ~WholePhraseIn(out, "employment history")

\* a capitalized header after a weak phrase: both stages have acted
C6_Witness ==
    /\ ret.op = "optimize_cv_text"
    /\ cv = "Responsible for Employment History\n"
    /\ out = "managed WORK EXPERIENCE\n"

-----------------------------------------------------------------------------
(* Properties of the agent's session history *)

\* C7: the session history of every agent is empty at construction and every
\* analyze_and_optimize call appends exactly one entry, the results of that
\* call, at the end of the history of the agent called; it leaves the earlier
\* entries, the history of the other agent, the analysis_cache and the
\* optimization_history as they were, the last two empty
C7_HistoryAppendOnly ==
    /\ \A a \in Agents : session_history[a] = <<>>
    /\ [](\A a \in Agents : analysis_cache[a] = <<>> /\ optimization_history[a] = <<>>)
    /\ [][\E a \in Agents :
            /\ args'.agent = a
            /\ ret'.value.original_cv = args'.cv_text
            /\ session_history' = [session_history EXCEPT ![a] = Append(@, ret'.value)]]_vars

\* both agents have been called once, with different results
C7_Witness ==
    /\ Len(session_history["a1"]) = 1
    /\ Len(session_history["a2"]) = 1
    /\ session_history["a1"] # session_history["a2"]

-----------------------------------------------------------------------------
(* Properties of the recommendations and of the keyword analysis *)

RecommendationOrder == <<FormattingRec, SectionsRec, KeywordRec, ActionVerbRec, QuantifyRec, TailorRec>>

\* the positions in RecommendationOrder of the items due for the analysis in ret
DueItems ==
    {k \in 1..6 :
        \/ k = 1 /\ out.formatting_issues # <<>>
        \/ k = 2 /\ \E n \in 1..Len(out.weaknesses) : Contains(Lower(out.weaknesses[n]), "missing")
        \/ k = 3 /\ _analyze_keywords(cv, jd).score < 60
        \/ k = 4 /\ _analyze_action_verbs(Lower(cv)) < 50
        \/ k = 5 /\ \A n \in 1..Len(out.weaknesses) : ~Contains(Lower(out.weaknesses[n]), "quantified")
        \/ k = 6}

\* C8: the recommendations are the due items of the fixed order (formatting,
\* missing sections, keywords, action verbs, quantification, tailor), each
\* present iff its condition holds, in that relative order, the tailor item
\* always present and last
C8_RecommendationOrder ==
    ret.op = "analyze_cv" =>
        LET due == Sorted(DueItems)
        IN /\ out.recommendations = [n \in 1..Len(due) |-> RecommendationOrder[due[n]]]
           /\ out.recommendations[Len(out.recommendations)] = TailorRec

\* an analysis for which all six items are due
C8_Witness ==
    /\ ret.op = "analyze_cv"
    /\ Len(out.recommendations) = 6
    /\ DueItems = 1..6

\* s[i..j] is a job-description word: letters only, at least 3, not adjacent
\* to a letter, a digit or an underscore
IsWordOf(s, i, j) ==
    /\ j - i + 1 >= 3
    /\ i = 1 \/ ~IsWordChar(Ch(s, i - 1))
    /\ j = Len(s) \/ ~IsWordChar(Ch(s, j + 1))
    /\ \A k \in i..j : IsAlpha(Ch(s, k))

\* the words of s, lower-cased, by the position where each starts
WordMap(s) ==
    LET starts == {i \in 1..Len(s) : IsAlpha(Ch(s, i)) /\ (i = 1 \/ ~IsWordChar(Ch(s, i - 1)))}
        ends == {j \in 1..Len(s) : IsAlpha(Ch(s, j)) /\ (j = Len(s) \/ ~IsWordChar(Ch(s, j + 1)))}
        positions == {i \in starts : \E j \in ends : IsWordOf(s, i, j)}
    IN [i \in positions |-> Lower(SubSeq(s, i, CHOOSE j \in ends : IsWordOf(s, i, j)))]

\* the words of a word map and the positions of one of them
WordsOf(wm) == {wm[i] : i \in DOMAIN wm}
PositionsOf(wm, w) == {i \in DOMAIN wm : wm[i] = w}

\* the greatest number of occurrences of w in text that do not overlap
DisjointOccurrences(text, w) ==
    LET occ == {i \in 1..Len(text) : MatchAt(text, i, w)}
        disjoint == {S \in SUBSET occ : \A x, y \in S : x < y => x + Len(w) <= y}
    IN CHOOSE n \in 0..Cardinality(occ) :
          /\ \E S \in disjoint : Cardinality(S) = n
          /\ \A S \in disjoint : Cardinality(S) <= n

\* C9: keyword_analysis is empty when the job description is empty; otherwise
\* its keys are exactly the job-description words (letters only, 3 or more,
\* lower-cased) that occur more than twice there and occur in the lower-cased
\* document, each once, mapped to its number of occurrences in the lower-cased
\* document, which is at least 1
C9_KeywordAnalysis ==
    ret.op = "analyze_cv" =>
        LET ka == out.keyword_analysis
            wm == WordMap(jd)
            expected == {w \in WordsOf(wm) : Cardinality(PositionsOf(wm, w)) > 2 /\ Contains(Lower(cv), w)}
        IN /\ jd = "" => ka = <<>>
           /\ {ka[n][1] : n \in 1..Len(ka)} = expected
           /\ Len(ka) = Cardinality(expected)
           /\ \A n \in 1..Len(ka) : ka[n][2] = DisjointOccurrences(Lower(cv), ka[n][1]) /\ ka[n][2] >= 1

\* a keyword counted twice, next to an important word the document lacks and
\* a word of frequency 2 the document has
C9_Witness ==
    /\ ret.op = "analyze_cv"
    /\ jd = "Python python PYTHON rust rust rust skills skills"
    /\ Contains(cv, "skills")
    /\ out.keyword_analysis = << <<"python", 2>> >>

-----------------------------------------------------------------------------
(* Properties of optimize_for_job_description *)

\* the important words of the job description with word map wm that the
\* document lacks
MissingWords(wm) ==
    LET cv_lower == Lower(cv)
    IN {w \in WordsOf(wm) : /\ w \notin StopWords
                            /\ Cardinality(PositionsOf(wm, w)) >= 3
                            /\ ~Contains(cv_lower, w)}

\* the words of the set missing in the order of their first occurrence
InOrder(wm, missing) ==
    LET firsts == Sorted({Min(PositionsOf(wm, w)) : w \in missing})
    IN [n \in 1..Len(firsts) |-> wm[firsts[n]]]

\* the words of the set missing that occur exactly 4 times
FourTimes(wm, missing) == {w \in missing : Cardinality(PositionsOf(wm, w)) = 4}

\* the main statement of C10: one suggestion iff some important word is
\* missing, naming the first 10 missing words in first-seen order
OneSuggestionOfTen(wm) ==
    LET missing == MissingWords(wm)
        ordered == InOrder(wm, missing)
    IN out.suggestions =
          IF missing = {} THEN <<>>
          ELSE <<SuggestionHeader \o Join(", ", SubSeq(ordered, 1, MinOf(10, Len(ordered))))>>

Names(suggestion, w) == Contains(suggestion, ": " \o w) \/ Contains(suggestion, ", " \o w)

\* C10 as stated: the main statement, and a document missing a word repeated
\* 4 times in the job description gets exactly one suggestion naming that word
C10_FourTimesAlwaysNamed ==
    ret.op = "optimize_for_job_description" =>
        LET wm == WordMap(jd)
        IN /\ OneSuggestionOfTen(wm)
           /\ \A w \in FourTimes(wm, MissingWords(wm)) :
                 Len(out.suggestions) = 1 /\ Names(out.suggestions[1], w)

\* C10: the main statement, and a document missing a word repeated 4 times
\* in the job description gets exactly one suggestion, which names that word
\* when it is among the first 10 missing words
C10_FourTimesNamedWithinTen ==
    ret.op = "optimize_for_job_description" =>
        LET wm == WordMap(jd)
            missing == MissingWords(wm)
            ordered == InOrder(wm, missing)
        IN /\ OneSuggestionOfTen(wm)
           /\ \A w \in FourTimes(wm, missing) :
                 /\ Len(out.suggestions) = 1
                 /\ (\E n \in 1..MinOf(10, Len(ordered)) : ordered[n] = w) => Names(out.suggestions[1], w)

\* eleven important words are missing and the suggestion names the first ten
C10_Witness ==
    /\ ret.op = "optimize_for_job_description"
    /\ Cardinality(MissingWords(WordMap(jd))) = 11
    /\ out.suggestions = <<SuggestionHeader \o "aaa, bbb, ccc, ddd, eee, fff, ggg, hhh, iii, jjj">>

LeadershipKeywords == {"leadership", "mentoring", "team management"}
ManagementKeywords == {"project management", "stakeholder management", "strategic planning"}
TechnicalKeywords == {"problem solving", "technical design", "code review"}
CatalogKeywords == UNION {INDUSTRY_KEYWORDS[k].keywords : k \in 1..Len(INDUSTRY_KEYWORDS)}

\* catalog industry k is the first one whose name is a substring of the lower-cased argument
FirstIndustry(k, industry) ==
    /\ Contains(Lower(industry), INDUSTRY_KEYWORDS[k].industry)
    /\ \A j \in 1..(k - 1) : ~Contains(Lower(industry), INDUSTRY_KEYWORDS[j].industry)

\* C11: suggest_keywords returns the keywords of exactly one industry, the
\* first catalog industry whose name is a substring of the lower-cased industry
\* argument, or of none when no industry matches; it adds the leadership
\* keywords iff the (lower-cased) role contains "senior" or "lead", the
\* management keywords iff it contains "manager", the technical keywords iff it
\* contains "engineer" or "developer", and nothing else; the result of
\* ("Software Engineering", "Senior Developer") has "docker" and "leadership"
C11_SuggestKeywords ==
    ret.op = "suggest_keywords" =>
        LET role_lower == Lower(args.role)
            Adds(keywords, due) == IF due THEN keywords \subseteq out ELSE keywords \cap out = {}
        IN /\ \A k \in 1..Len(INDUSTRY_KEYWORDS) :
                  Adds(INDUSTRY_KEYWORDS[k].keywords, FirstIndustry(k, args.industry))
           /\ Adds(LeadershipKeywords, Contains(role_lower, "senior") \/ Contains(role_lower, "lead"))
           /\ Adds(ManagementKeywords, Contains(role_lower, "manager"))
           /\ Adds(TechnicalKeywords, Contains(role_lower, "engineer") \/ Contains(role_lower, "developer"))
           /\ out \subseteq CatalogKeywords \cup LeadershipKeywords \cup ManagementKeywords \cup TechnicalKeywords
           /\ (args.industry = "Software Engineering" /\ args.role = "Senior Developer")
                  => {"docker", "leadership"} \subseteq out

\* an industry argument that names two catalog industries, the later one first
\* in the text: only the keywords of the first catalog industry are returned
C11_Witness ==
    /\ ret.op = "suggest_keywords"
    /\ args.industry = "marketingSoftware"
    /\ args.role = "Senior Developer"
    /\ "docker" \in out
    /\ "seo" \notin out
    /\ "leadership" \in out
    /\ "project management" \notin out

\* the number of matches of the numeric-token pattern in the document of the call
NumericTokens == CountNumbersFrom(cv, 1)

\* C12: the quantification score is a step function of the number n of
\* matches of the numeric-token pattern: n > 10 gives 100, 5 < n <= 10 gives
\* 75, 2 < n <= 5 gives 50, n <= 2 gives 25; so 11 gives 100, 6 gives 75,
\* 5 and 3 give 50, 2 and 0 give 25
C12_QuantificationSteps ==
    ret.op = "_analyze_quantification" =>
        LET n == NumericTokens
        IN /\ (n > 10) => out = 100
           /\ (5 < n /\ n <= 10) => out = 75
           /\ (2 < n /\ n <= 5) => out = 50
           /\ (n <= 2) => out = 25
           /\ (n = 11) => out = 100
           /\ (n = 6) => out = 75
           /\ (n \in {5, 3}) => out = 50
           /\ (n \in {2, 0}) => out = 25

\* a document of exactly 5 numeric tokens, one of them a percentage and one
\* followed by a letter, scored 50
C12_Witness ==
    /\ ret.op = "_analyze_quantification"
    /\ cv = "1 2 3 40% 5x "
    /\ NumericTokens = 5
    /\ out = 50

\* C13: the ATS compatibility score is 0.4*section_score + 0.4*keyword_score
\* - min(30, 10*issue_count), floored at 0 and then truncated to an integer
\* (stated in fifths: the score is the integer a with 5a <= floored < 5a + 5);
\* hence with four or five formatting issues the score equals the score of the
\* first three of them
C13_AtsScoreFormula ==
    ret.op = "_calculate_ats_score" =>
        LET issue_count == Len(args.formatting_issues)
            capped == IF 10 * issue_count < 30 THEN 10 * issue_count ELSE 30
            fifths == 2 * args.section_score + 2 * args.keyword_score - 5 * capped
            floored == IF fifths < 0 THEN 0 ELSE fifths
        IN /\ out \in Int
           /\ 5 * out <= floored
           /\ floored < 5 * out + 5
           /\ issue_count >= 3 =>
                  out = _calculate_ats_score(args.section_score, SubSeq(args.formatting_issues, 1, 3),
                                             args.keyword_score)

\* five formatting issues and a score that is not a multiple of 5 before
\* truncation: 0.4*100 + 0.4*99 - 30 = 49.6 gives 49
C13_Witness ==
    /\ ret.op = "_calculate_ats_score"
    /\ Len(args.formatting_issues) = 5
    /\ args.section_score = 100
    /\ args.keyword_score = 99
    /\ out = 49

StrengthFallback == "CV structure is present"
WeaknessFallback == "Minor improvements could be made"

\* the strings of a list
Elements(list) == {list[n] : n \in 1..Len(list)}

\* some rule of _identify_strengths holds of the document
StrengthRuleFires(text) ==
    \/ CountPercentages(text) > 3
    \/ ActionVerbCount(Lower(text)) > 10
    \/ \A section \in {"experience", "education", "skills"} : Contains(Lower(text), section)
    \/ 300 < WordCount(text) /\ WordCount(text) < 800

\* some rule of _identify_weaknesses holds of the document and its formatting issues
WeaknessRuleFires(text, formatting_issues) ==
    \/ ~Contains(Lower(text), "experience") /\ ~Contains(Lower(text), "employment")
    \/ ~Contains(Lower(text), "education")
    \/ ~Contains(Lower(text), "skills")
    \/ Count(Lower(text), "responsible for") + Count(Lower(text), "duties included")
         + Count(Lower(text), "worked on") > 3
    \/ WordCount(text) < 200
    \/ WordCount(text) > 1000
    \/ formatting_issues # <<>>

\* C14: in every AnalysisResult strengths, weaknesses and recommendations are
\* non-empty; strengths is exactly the fallback "CV structure is present" iff
\* no strength rule fires, weaknesses is exactly the fallback "Minor
\* improvements could be made" iff no weakness rule fires, and a fallback never
\* appears in a list together with another string
C14_FallbackLists ==
    ret.op = "analyze_cv" =>
        /\ out.strengths # <<>>
        /\ out.weaknesses # <<>>
        /\ out.recommendations # <<>>
        /\ (out.strengths = <<StrengthFallback>>) <=> ~StrengthRuleFires(cv)
        /\ (out.weaknesses = <<WeaknessFallback>>) <=> ~WeaknessRuleFires(cv, out.formatting_issues)
        /\ StrengthFallback \in Elements(out.strengths) => Len(out.strengths) = 1
        /\ WeaknessFallback \in Elements(out.weaknesses) => Len(out.weaknesses) = 1

\* a document of more than 200 words with the three essential sections and no
\* formatting issue: no weakness rule fires, a strength rule does
C14_Witness ==
    /\ ret.op = "analyze_cv"
    /\ WordCount(cv) >= 200
    /\ ~WeaknessRuleFires(cv, out.formatting_issues)
    /\ out.weaknesses = <<WeaknessFallback>>
    /\ StrengthRuleFires(cv)
    /\ StrengthFallback \notin Elements(out.strengths)

\* the number of lines of the document whose stripped length is in lengths
LinesOfLength(text, lengths) ==
    LET lines == SplitLines(text)
    IN Cardinality({n \in 1..Len(lines) : StripLen(lines[n]) \in lengths})

\* C15: the column-layout issue is reported exactly when more than 30% of the
\* non-empty lines of the document are shorter than 20 characters; blank lines
\* do not count toward the total (2 short lines separated by 5 blank lines
\* trigger the issue)
C15_ColumnIssueOverNonEmptyLines ==
    ret.op = "_check_formatting" =>
        LET short_lines == LinesOfLength(cv, 1..19)
            non_empty == LinesOfLength(cv, 1..Len(cv))
        IN (ColumnIssue \in Elements(out)) <=> (10 * short_lines > 3 * non_empty)

\* C16: the section-header canonicalization stage is idempotent: applied to
\* its own output it returns that output unchanged (as for "professional
\* career summary" and "professional about me")
C16_StandardizeIdempotent ==
    ret.op = "_standardize_sections" => _standardize_sections(out) = out

\* C17: analyze_cv on the empty document with no job description returns a
\* well-formed result: the action-verb score is 0, the quantification score
\* 25, the keyword score the neutral 50, formatting_issues and
\* keyword_analysis are empty, ats_compatibility_score is 20, overall_score is
\* 16, and strengths, weaknesses and recommendations are non-empty
C17_EmptyDocument ==
    (ret.op = "analyze_cv" /\ cv = "" /\ jd = "") =>
        /\ _analyze_action_verbs(Lower(cv)) = 0
        /\ _analyze_quantification(cv) = 25
        /\ _analyze_keywords(cv, jd).score = 50
        /\ out.formatting_issues = <<>>
        /\ out.keyword_analysis = <<>>
        /\ out.ats_compatibility_score = 20
        /\ out.overall_score = 16
        /\ out.strengths # <<>>
        /\ out.weaknesses # <<>>
        /\ out.recommendations # <<>>

\* the analysis of the empty document with no job description has returned
C17_Witness ==
    /\ ret.op = "analyze_cv"
    /\ cv = ""
    /\ jd = ""
    /\ WordCount(cv) = 0
    /\ out.overall_score = 16

-----------------------------------------------------------------------------
(* Properties of the agent's pipeline *)

\* C18: the optimized_cv returned by analyze_and_optimize does not depend on
\* whether a job description is supplied: with a job description, where the
\* rewrite is applied again to the rewritten text, it equals the optimized_cv
\* of the call with an empty job description, a single rewrite of cv_text
C18_OptimizedCvIndependentOfJobDescription ==
    ret.op = "analyze_and_optimize" =>
        out.optimized_cv = optimize_cv_text(args.cv_text, args.target_role, args.industry)

\* C19: the rewrite removes what the scoring engine flags as special bullets:
\* for every document, analyze_cv of optimize_cv_text of the document reports
\* no "special bullet points" formatting issue
C19_NoSpecialBulletAfterRewrite ==
    ret.op = "optimize_cv_text" =>
        IssueText("special bullet points") \notin Elements(analyze_cv(out, "").formatting_issues)

-----------------------------------------------------------------------------
(* Properties of the quantification reminder *)

\* C20: the quantification reminder is in the recommendations of every
\* AnalysisResult: no weakness contains "quantified", so the guard that would
\* omit the reminder never holds; every recommendations list has between 2 and
\* 6 entries, the quantification reminder second to last, the tailor item last
C20_QuantificationReminderAlways ==
    ret.op = "analyze_cv" =>
        LET recs == out.recommendations
        IN /\ \A w \in Elements(out.weaknesses) : ~Contains(Lower(w), "quantified")
           /\ Len(recs) \in 2..6
           /\ recs[Len(recs) - 1] = QuantifyRec
           /\ recs[Len(recs)] = TailorRec
           /\ Cardinality({n \in 1..Len(recs) : recs[n] = QuantifyRec}) = 1

\* a document with numeric tokens, of a quantification score above the least
\* one, and with rule-generated weaknesses still gets the reminder
C20_Witness ==
    /\ ret.op = "analyze_cv"
    /\ _analyze_quantification(cv) > 25
    /\ out.weaknesses # <<WeaknessFallback>>
    /\ QuantifyRec \in Elements(out.recommendations)

====
